---- MODULE Spec2Model ----
(***************************************************************************)
(* Model of gpmcc/dists/normal_uc.py: the uncollapsed Normal component     *)
(* with a Normal-Gamma prior (class NormalUC).                             *)
(*                                                                         *)
(* Numbers.  Data, N, sum_x and the hyperparameters are integers below     *)
(* 2^53, where Python float arithmetic is exact.  sum_x_sq, which can      *)
(* exceed 2^53, is a float <<hi, lo>> of value hi * 2^54 + lo, and sums    *)
(* of such floats are rounded to 53 significant bits, to nearest, ties to  *)
(* even, as IEEE 754 doubles are.  The posterior hyperparameters mn and    *)
(* sn are exact rationals <<num, den>>.                                    *)
(* Log-densities are fixed-point integers in units of 1/1000, computed     *)
(* with the closed forms of the normal and gamma log-densities and a       *)
(* table of natural logarithms.  A scale 1/sqrt(p) is carried as the       *)
(* record [prec |-> p].                                                    *)
(***************************************************************************)
EXTENDS Integers, Sequences, FiniteSets, TLC

(* ------------------------------ bounds --------------------------------- *)
MaxX == 1
MaxN == 1
MaxHyper == 2
MaxRho == 2
WideN == 2
MaxW == 1
MaxSmall == 2

Data == 0..MaxX
RhoDraws == 1..MaxRho
MuDraws == {0 - 1, 1}

(* --------------------------- program constants ------------------------- *)
LOG2PI == 1838

(* ------------------------------ arithmetic ----------------------------- *)
Abs(a) == IF a < 0 THEN 0 - a ELSE a

RECURSIVE Gcd(_, _)
Gcd(a, b) == IF b = 0 THEN a ELSE Gcd(b, a % b)

\* the rational n/d in lowest terms with a positive denominator (d # 0)
Rat(n, d) ==
    LET g == Gcd(Abs(n), Abs(d))
        sg == IF d < 0 THEN 0 - 1 ELSE 1
    IN  <<(sg * n) \div g, (sg * d) \div g>>

RatInt(k) == <<k, 1>>
RatAdd(p, q) == Rat(p[1] * q[2] + q[1] * p[2], p[2] * q[2])
RatSub(p, q) == Rat(p[1] * q[2] - q[1] * p[2], p[2] * q[2])
RatMul(p, q) == Rat(p[1] * q[1], p[2] * q[2])
RatDiv(p, q) == Rat(p[1] * q[2], p[2] * q[1])
RatPos(p) == p[1] > 0

LnTable ==
    << 0, 693, 1099, 1386, 1609, 1792, 1946, 2079, 2197, 2303, 2398, 2485,
       2565, 2639, 2708, 2773, 2833, 2890, 2944, 2996, 3045, 3091, 3135,
       3178, 3219, 3258, 3296, 3332, 3367, 3401, 3434, 3466, 3497, 3526,
       3555, 3584, 3611, 3638, 3664, 3689, 3714, 3738, 3761, 3784, 3807,
       3829, 3850, 3871, 3892, 3912, 3932, 3951, 3970, 3989, 4007, 4025,
       4043, 4060, 4078, 4094, 4111, 4127, 4143, 4159 >>

\* 1000 * log(k) for a positive integer k
Ln(k) == LnTable[k]

\* 1000 * log(n/d) for a positive rational
LnRat(p) == Ln(p[1]) - Ln(p[2])

LGammaHalfTable ==
    << 572, 0, 0 - 121, 0, 285, 693, 1201, 1792, 2454, 3178, 3958, 4787 >>

\* 1000 * lgamma(k/2) for a positive integer k
LGammaHalf(k) == LGammaHalfTable[k]

(* --------------------------- float arithmetic -------------------------- *)
\* 2^27: the square of a datum this large exceeds 2^53
Big == 2^27

\* the float of a small integer, and the integer of a float below 2^54
F(v) == <<0, v>>
Val(f) == CHOOSE v \in {f[2]} : f[1] = 0

FNeg(f) == <<0 - f[1], 0 - f[2]>>
FNegative(f) == f[1] < 0 \/ (f[1] = 0 /\ f[2] < 0)

RECURSIVE Log2(_)
Log2(h) == IF h < 2 THEN 0 ELSE 1 + Log2(h \div 2)

\* the unit in the last place of hi * 2^54 + lo, hi > 0, |lo| < 2^31:
\* 2^(54 + e - 52) in the binade of 2^(54 + e), one binade lower just below
\* a power of two
Ulp(f) ==
    LET e == Log2(f[1])
    IN  IF f[2] < 0 /\ f[1] = 2^e THEN 2^(e + 1) ELSE 2^(e + 2)

\* l to the nearest multiple of u, ties to the even multiple
RoundEven(l, u) ==
    LET q == l \div u
        rem == l - q * u
    IN  IF 2 * rem < u THEN q * u
        ELSE IF 2 * rem > u THEN (q + 1) * u
        ELSE IF q % 2 = 0 THEN q * u ELSE (q + 1) * u

\* the double nearest to the exact value hi * 2^54 + lo
RECURSIVE FRound(_)
FRound(f) ==
    IF FNegative(f) THEN FNeg(FRound(FNeg(f)))
    ELSE IF f[1] = 0 THEN f
    ELSE <<f[1], RoundEven(f[2], Ulp(f))>>

ExactAdd(f, g) == <<f[1] + g[1], f[2] + g[2]>>
ExactSub(f, g) == <<f[1] - g[1], f[2] - g[2]>>

\* Python float + and -
FAdd(f, g) == FRound(ExactAdd(f, g))
FSub(f, g) == FRound(ExactSub(f, g))

\* Python float x * x for x = a * 2^27 + b >= 0
Sq(x) ==
    LET a == x \div Big
        b == x % Big
    IN  FRound(<<a * a, 2 * a * b * Big + b * b>>)

(* ------------------------------ results -------------------------------- *)
Ok(v) == [kind |-> "ok", val |-> v]
Raise(e) == [kind |-> e, val |-> 0]

None == <<>>
Some(v) == <<v>>

(* ------------------------- library primitives -------------------------- *)
\* 1./p**.5 : the scale of a normal whose precision is p.  A zero precision
\* divides by zero.  A negative base under a fractional power raises
\* ValueError in Python 2 and yields a complex number in Python 3, where no
\* real scale results; both outcomes are kept.
InvSqrt(p) ==
    IF p > 0 THEN {Ok([prec |-> p])}
    ELSE IF p = 0 THEN {Raise("ZeroDivisionError")}
    ELSE {Raise("ValueError"), Raise("ComplexScale")}

\* scipy.stats.norm.logpdf(x, loc, scale) =
\*   -(x - loc)^2 / (2 scale^2) - log(scale) - log(2 pi)/2
norm_logpdf(x, loc, scale) ==
    (0 - (1000 * scale.prec * (x - loc) * (x - loc)) \div 2)
        + (Ln(scale.prec) \div 2) - (LOG2PI \div 2)

\* scipy.stats.gamma.logpdf(x, a, scale) for x > 0, with y = x / scale:
\*   (a - 1) log(y) - y - lgamma(a) - log(scale)
gamma_logpdf(x, a, scale) ==
    LET y == RatDiv(RatInt(x), scale)
    IN  (((a[1] - a[2]) * LnRat(y)) \div a[2])
            - ((1000 * y[1]) \div y[2])
            - LGammaHalf((2 * a[1]) \div a[2])
            - LnRat(scale)

(* --------------------------- static helpers ---------------------------- *)
calc_predictive_logp(x, mu, rho) ==
    { IF sc.kind = "ok" THEN Ok(norm_logpdf(x, mu, sc.val)) ELSE sc :
        sc \in InvSqrt(rho) }

calc_log_likelihood(N, sum_x, sum_x_sq, rho, mu) ==
    IF rho <= 0 THEN Raise("ValueError")
    ELSE Ok((0 - ((N * LOG2PI) \div 2)) + ((N * Ln(rho)) \div 2)
            - ((1000 * rho * (N * mu * mu - 2 * mu * sum_x + Val(sum_x_sq)))
                   \div 2))

calc_log_prior(mu, rho, m, r, s, nu) ==
    { IF sc.kind = "ok"
        THEN Ok(norm_logpdf(mu, m, sc.val)
                + gamma_logpdf(rho, Rat(nu, 2), Rat(2, s)))
        ELSE sc :
        sc \in InvSqrt(r * rho) }

\* Normal.posterior_hypers: the Normal-Gamma conjugate update
posterior_hypers(N, sum_x, sum_x_sq, m, r, s, nu) ==
    LET rn == r + N
        nun == nu + N
        mn == Rat(r * m + sum_x, rn)
        sn == RatSub(RatInt(s + Val(sum_x_sq) + r * m * m),
                     RatMul(RatInt(rn), RatMul(mn, mn)))
    IN  <<rn, nun, mn, sn>>

GammaCall(shape, rate, out) ==
    [fn |-> "sample_gamma", a |-> shape, b |-> rate, out |-> out]

NormalCall(mean, precision, out) ==
    [fn |-> "sample_normal", a |-> mean, b |-> precision, out |-> out]

\* Normal.sample_parameters: rho ~ Gamma(nu/2, rate = s/2), then
\* mu ~ Normal(m, precision = r * rho).  A gamma draw is a positive number.
\* For a rate <= 0 there is no such distribution and nothing states what
\* the samplers do then: a failure and every pair of values are possible.
sample_parameters(m, r, s, nu) ==
    LET draws(rhos) ==
            { Ok([mu |-> mu, rho |-> rho,
                  calls |-> << GammaCall(Rat(nu, 2), RatDiv(s, RatInt(2)), rho),
                               NormalCall(m, r * rho, mu) >>]) :
                rho \in rhos, mu \in MuDraws }
    IN  IF RatPos(s) THEN draws(RhoDraws)
        ELSE {Raise("Error")} \cup draws((0 - 1)..MaxRho)

(* ------------------------------ methods -------------------------------- *)
\* every method yields the set of its possible outcomes
\* [kind, val, self, calls]: the result, the component afterwards and the
\* calls it made

Outcome(kind, val, obj, calls) ==
    [kind |-> kind, val |-> val, self |-> obj, calls |-> calls]

MethodCall(name) == [fn |-> name, a |-> 0, b |-> 0, out |-> 0]

\* faulty variants of transition_params: sum_x and sum_x_sq exchanged;
\* rn and nun exchanged; mu drawn before rho; posterior r and nu stored
transition_params_swapped_stats(obj) ==
    LET h == posterior_hypers(obj.N, Val(obj.sum_x_sq), F(obj.sum_x),
                              obj.m, obj.r, obj.s, obj.nu)
    IN  { IF o.kind = "ok"
            THEN Outcome("ok", 0,
                         [obj EXCEPT !.mu = o.val.mu, !.rho = o.val.rho],
                         o.val.calls)
            ELSE Outcome(o.kind, 0, obj, <<>>) :
          o \in sample_parameters(h[3], h[1], h[4], h[2]) }

transition_params_swapped_r_nu(obj) ==
    LET h == posterior_hypers(obj.N, obj.sum_x, obj.sum_x_sq,
                              obj.m, obj.r, obj.s, obj.nu)
    IN  { IF o.kind = "ok"
            THEN Outcome("ok", 0,
                         [obj EXCEPT !.mu = o.val.mu, !.rho = o.val.rho],
                         o.val.calls)
            ELSE Outcome(o.kind, 0, obj, <<>>) :
          o \in sample_parameters(h[3], h[2], h[4], h[1]) }

transition_params_mu_first(obj) ==
    LET h == posterior_hypers(obj.N, obj.sum_x, obj.sum_x_sq,
                              obj.m, obj.r, obj.s, obj.nu)
    IN  { Outcome("ok", 0, [obj EXCEPT !.mu = mu, !.rho = rho],
                  << NormalCall(h[3], h[1], mu),
                     GammaCall(Rat(h[2], 2), RatDiv(h[4], RatInt(2)), rho) >>) :
          rho \in RhoDraws, mu \in MuDraws }

transition_params_store_posterior(obj) ==
    LET h == posterior_hypers(obj.N, obj.sum_x, obj.sum_x_sq,
                              obj.m, obj.r, obj.s, obj.nu)
    IN  { IF o.kind = "ok"
            THEN Outcome("ok", 0,
                         [obj EXCEPT !.mu = o.val.mu, !.rho = o.val.rho,
                                     !.r = h[1], !.nu = h[2]],
                         o.val.calls)
            ELSE Outcome(o.kind, 0, obj, <<>>) :
          o \in sample_parameters(h[3], h[1], h[4], h[2]) }

transition_params(obj) ==
    LET h == posterior_hypers(obj.N, obj.sum_x, obj.sum_x_sq,
                              obj.m, obj.r, obj.s, obj.nu)
        rn == h[1]
        nun == h[2]
        mn == h[3]
        sn == h[4]
    IN  { IF o.kind = "ok"
            THEN Outcome("ok", 0,
                         [obj EXCEPT !.mu = o.val.mu, !.rho = o.val.rho],
                         o.val.calls)
            ELSE Outcome(o.kind, 0, obj, <<>>) :
          o \in sample_parameters(mn, rn, sn, nun) }

\* faulty variant of predictive_logp: scores against the statistic sum_x
predictive_logp_posterior_mean(obj, x) ==
    { Outcome(o.kind, o.val, obj, <<>>) :
        o \in calc_predictive_logp(x, obj.sum_x, obj.rho) }

predictive_logp(obj, x) ==
    { Outcome(o.kind, o.val, obj, <<>>) :
        o \in calc_predictive_logp(x, obj.mu, obj.rho) }

\* faulty variant of singleton_logp: scores against the prior mean m
singleton_logp_prior(obj, x) ==
    { Outcome(o.kind, o.val, obj, <<>>) :
        o \in calc_predictive_logp(x, obj.m, obj.rho) }

singleton_logp(obj, x) ==
    { Outcome(o.kind, o.val, obj, <<>>) :
        o \in calc_predictive_logp(x, obj.mu, obj.rho) }

\* faulty variants of marginal_logp: rho and mu exchanged in the
\* likelihood; the prior evaluated before the likelihood
marginal_logp_swapped(obj) ==
    LET data_logp == calc_log_likelihood(obj.N, obj.sum_x, obj.sum_x_sq,
                                         obj.mu, obj.rho)
    IN  IF data_logp.kind # "ok"
        THEN {Outcome(data_logp.kind, 0, obj, <<>>)}
        ELSE { IF prior_logp.kind = "ok"
                 THEN Outcome("ok", data_logp.val + prior_logp.val, obj, <<>>)
                 ELSE Outcome(prior_logp.kind, 0, obj, <<>>) :
               prior_logp \in calc_log_prior(obj.mu, obj.rho, obj.m,
                                             obj.r, obj.s, obj.nu) }

marginal_logp_prior_first(obj) ==
    UNION { IF prior_logp.kind # "ok"
              THEN {Outcome(prior_logp.kind, 0, obj, <<>>)}
              ELSE LET data_logp == calc_log_likelihood(obj.N, obj.sum_x,
                                        obj.sum_x_sq, obj.rho, obj.mu)
                   IN  {Outcome(data_logp.kind,
                                IF data_logp.kind = "ok"
                                THEN data_logp.val + prior_logp.val ELSE 0,
                                obj, <<>>)} :
            prior_logp \in calc_log_prior(obj.mu, obj.rho, obj.m,
                                          obj.r, obj.s, obj.nu) }

marginal_logp(obj) ==
    LET data_logp == calc_log_likelihood(obj.N, obj.sum_x, obj.sum_x_sq,
                                         obj.rho, obj.mu)
    IN  IF data_logp.kind # "ok"
        THEN {Outcome(data_logp.kind, 0, obj, <<>>)}
        ELSE { IF prior_logp.kind = "ok"
                 THEN Outcome("ok", data_logp.val + prior_logp.val, obj, <<>>)
                 ELSE Outcome(prior_logp.kind, 0, obj, <<>>) :
               prior_logp \in calc_log_prior(obj.mu, obj.rho, obj.m,
                                             obj.r, obj.s, obj.nu) }

\* np.random.normal(mu, 1./rho**.5)
simulate(obj) ==
    UNION { IF sc.kind = "ok"
              THEN { Outcome("ok", x, obj,
                             << NormalCall(RatInt(obj.mu), sc.val.prec, x) >>) :
                     x \in Data }
              ELSE { Outcome(sc.kind, 0, obj, <<>>) } :
            sc \in InvSqrt(obj.rho) }

\* Normal.__init__: checks the hyperparameters and stores the statistics
\* and the hyperparameters
Normal__init__(a) ==
    IF a.r <= 0 \/ a.s <= 0 \/ a.nu <= 0
    THEN Raise("ConfigError")
    ELSE Ok([N |-> a.N, sum_x |-> a.sum_x, sum_x_sq |-> F(a.sum_x_sq),
             mu |-> None, rho |-> None,
             m |-> a.m, r |-> a.r, s |-> a.s, nu |-> a.nu])

Unwrap(opt) == IF opt = None THEN None ELSE opt[1]

\* faulty variant of NormalUC__init__: transitions only when both mu and
\* rho are missing
NormalUC__init__and(a) ==
    LET parent == Normal__init__(a)
    IN  IF parent.kind # "ok"
        THEN {Outcome(parent.kind, 0, parent.val, <<>>)}
        ELSE LET obj == [parent.val EXCEPT !.mu = Unwrap(a.mu),
                                           !.rho = Unwrap(a.rho)]
             IN  IF a.mu = None /\ a.rho = None
                 THEN { Outcome(o.kind, 0, o.self,
                                << MethodCall("Normal.__init__"),
                                   MethodCall("transition_params") >>
                                    \o o.calls) :
                        o \in transition_params(obj) }
                 ELSE { Outcome("ok", 0, obj,
                                << MethodCall("Normal.__init__") >>) }

NormalUC__init__(a) ==
    LET parent == Normal__init__(a)
    IN  IF parent.kind # "ok"
        THEN {Outcome(parent.kind, 0, parent.val, <<>>)}
        ELSE LET obj == [parent.val EXCEPT !.mu = Unwrap(a.mu),
                                           !.rho = Unwrap(a.rho)]
             IN  IF a.mu = None \/ a.rho = None
                 THEN { Outcome(o.kind, 0, o.self,
                                << MethodCall("Normal.__init__"),
                                   MethodCall("transition_params") >>
                                    \o o.calls) :
                        o \in transition_params(obj) }
                 ELSE { Outcome("ok", 0, obj,
                                << MethodCall("Normal.__init__") >>) }

\* Normal.incorporate: N += 1, sum_x += x, sum_x_sq += x*x
incorporate(obj, x) ==
    { Outcome("ok", 0,
              [obj EXCEPT !.N = @ + 1, !.sum_x = @ + x,
                          !.sum_x_sq = FAdd(@, Sq(x))], <<>>) }

\* faulty variant of remove: leaves the sum of squares alone
remove_keep_sq(obj, x) ==
    IF obj.N - 1 < 0 THEN {Outcome("StateError", 0, obj, <<>>)}
    ELSE { Outcome("ok", 0,
                   [obj EXCEPT !.N = @ - 1, !.sum_x = @ - x], <<>>) }

\* Normal.remove: the inverse of incorporate; StateError when a statistic
\* would go negative.  N and sum_x_sq are the statistics that cannot be
\* negative; sum_x is a sum of reals of either sign.
remove(obj, x) ==
    LET after == [obj EXCEPT !.N = @ - 1, !.sum_x = @ - x,
                             !.sum_x_sq = FSub(@, Sq(x))]
    IN  IF after.N < 0 \/ FNegative(after.sum_x_sq)
        THEN {Outcome("StateError", 0, obj, <<>>)}
        ELSE {Outcome("ok", 0, after, <<>>)}

(* ------------------------------- state --------------------------------- *)
\* self  : the component's fields
\* ret   : the last operation, its argument and its result
\* calls : the calls the last operation made, in order
\* pre   : the component as it was before the last operation
\* hist  : <<[x, before]>> when the operation before the last one was a
\*         successful incorporate(x) on the component `before`, else <<>>
VARIABLES self, ret, calls, pre, hist

vars == <<self, ret, calls, pre, hist>>

SumLimit == MaxN * MaxX
SqLimit == MaxN * MaxX * MaxX

Opt(S) == {None} \cup {Some(v) : v \in S}

Hypers ==
    { [m |-> 0, r |-> 1, s |-> 1, nu |-> 1],
      [m |-> 1, r |-> MaxHyper, s |-> 1, nu |-> 1],
      [m |-> 1, r |-> 1, s |-> MaxHyper, nu |-> MaxHyper],
      [m |-> 0, r |-> 0, s |-> 1, nu |-> 1],
      [m |-> 0, r |-> 1, s |-> 0, nu |-> 1],
      [m |-> 0, r |-> 1, s |-> 1, nu |-> 0] }

CtorArgs ==
    { [N |-> n, sum_x |-> sx, sum_x_sq |-> sq, mu |-> mu0, rho |-> rho0,
       m |-> h.m, r |-> h.r, s |-> h.s, nu |-> h.nu] :
        n \in 0..MaxN, sx \in Data, sq \in 0..MaxX,
        mu0 \in Opt(MuDraws), rho0 \in Opt((0 - 1)..MaxRho), h \in Hypers }

Init ==
    \E a \in CtorArgs :
        \E o \in NormalUC__init__(a) :
            /\ o.kind = "ok"
            /\ self = o.self
            /\ calls = o.calls
            /\ ret = [op |-> "__init__", arg |-> a, kind |-> "ok", val |-> 0]
            /\ pre = o.self
            /\ hist = <<>>

Step(name, arg, outs) ==
    \E o \in outs :
        /\ self' = o.self
        /\ calls' = o.calls
        /\ ret' = [op |-> name, arg |-> arg, kind |-> o.kind, val |-> o.val]
        /\ pre' = self
        /\ hist' = IF ret.op = "incorporate" /\ ret.kind = "ok"
                   THEN << [x |-> ret.arg, before |-> pre] >>
                   ELSE <<>>

InRange(obj) ==
    /\ obj.N <= MaxN
    /\ obj.sum_x \in (0 - MaxX)..SumLimit
    /\ obj.sum_x_sq[1] = 0
    /\ obj.sum_x_sq[2] \in 0..SqLimit

Bounded(outs) == { o \in outs : InRange(o.self) }

Incorporate ==
    \E x \in Data : Step("incorporate", x, Bounded(incorporate(self, x)))

Remove ==
    \E x \in Data : Step("remove", x, Bounded(remove(self, x)))

PredictiveLogp ==
    \E x \in Data : Step("predictive_logp", x, predictive_logp(self, x))

SingletonLogp ==
    \E x \in Data : Step("singleton_logp", x, singleton_logp(self, x))

MarginalLogp == Step("marginal_logp", 0, marginal_logp(self))

Simulate == Step("simulate", 0, simulate(self))

TransitionParams == Step("transition_params", 0, transition_params(self))

Next ==
    \/ Incorporate
    \/ Remove
    \/ PredictiveLogp
    \/ SingletonLogp
    \/ MarginalLogp
    \/ Simulate
    \/ TransitionParams

Spec == Init /\ [][Next]_vars

(* ------------------ incorporate and remove on large data --------------- *)
\* data whose squares reach 2^54, with small data beside them
WideData == (1..MaxSmall) \cup { k * Big : k \in 1..MaxW }

WideCtorArgs ==
    { a \in CtorArgs :
        /\ <<a.N, a.sum_x, a.sum_x_sq>> = <<0, 0, 0>>
        /\ a.mu = Some(1)
        /\ a.rho \in {None, Some(1)}
        /\ <<a.m, a.r, a.s, a.nu>> = <<0, 1, 1, 1>> }

InitWide ==
    \E a \in WideCtorArgs :
        \E o \in NormalUC__init__(a) :
            /\ o.kind = "ok"
            /\ self = o.self
            /\ calls = o.calls
            /\ ret = [op |-> "__init__", arg |-> a, kind |-> "ok", val |-> 0]
            /\ pre = o.self
            /\ hist = <<>>

InRangeWide(obj) ==
    /\ obj.N <= WideN
    /\ obj.sum_x >= 0
    /\ obj.sum_x \div Big <= WideN * MaxW
    /\ obj.sum_x % Big <= WideN * MaxSmall
    /\ obj.sum_x_sq[1] <= WideN * MaxW * MaxW
    /\ Abs(obj.sum_x_sq[2]) <= WideN * MaxSmall * MaxSmall

BoundedWide(outs) == { o \in outs : InRangeWide(o.self) }

IncorporateWide ==
    \E x \in WideData :
        Step("incorporate", x, BoundedWide(incorporate(self, x)))

RemoveWide ==
    \E x \in WideData : Step("remove", x, BoundedWide(remove(self, x)))

NextWide ==
    \/ IncorporateWide
    \/ RemoveWide

SpecWide == InitWide /\ [][NextWide]_vars

(* ------------------------------ properties ----------------------------- *)
Res(outs) == { [kind |-> o.kind, val |-> o.val] : o \in outs }

Stats(obj) == <<obj.N, obj.sum_x, obj.sum_x_sq>>
HyperOf(obj) == <<obj.m, obj.r, obj.s, obj.nu>>

CallsOf(name) == { i \in DOMAIN calls : calls[i].fn = name }

\* the statistics are those of some multiset of real data
Consistent(obj) ==
    /\ obj.N >= 0
    /\ Val(obj.sum_x_sq) >= 0
    /\ obj.N * Val(obj.sum_x_sq) >= obj.sum_x * obj.sum_x

\* the sampler calls a transition of `obj` to the precision `rho` makes
ExpectedDraws(obj, mu, rho) ==
    LET rn == obj.r + obj.N
        nun == obj.nu + obj.N
        mn == Rat(obj.r * obj.m + obj.sum_x, rn)
        sn == RatSub(RatInt(obj.s + Val(obj.sum_x_sq)
                            + obj.r * obj.m * obj.m),
                     RatMul(RatInt(rn), RatMul(mn, mn)))
    IN  << GammaCall(Rat(nun, 2), RatDiv(sn, RatInt(2)), rho),
           NormalCall(mn, rn * rho, mu) >>

\* C1: a construction with mu or rho missing calls transition_params()
\* exactly once, after Normal.__init__ stored the statistics and the
\* hyperparameters, and both mu and rho come from that transition; with
\* both supplied they are stored as given and transition_params() is not
\* called.
C1_Construction ==
    ret.op = "__init__" =>
        LET a == ret.arg
        IN  /\ CallsOf("Normal.__init__") = {1}
            /\ Stats(self) = <<a.N, a.sum_x, F(a.sum_x_sq)>>
            /\ HyperOf(self) = <<a.m, a.r, a.s, a.nu>>
            /\ IF a.mu = None \/ a.rho = None
               THEN /\ CallsOf("transition_params") = {2}
                    /\ Len(calls) = 4
                    /\ SubSeq(calls, 3, 4) = ExpectedDraws(self, self.mu, self.rho)
               ELSE /\ CallsOf("transition_params") = {}
                    /\ Len(calls) = 1
                    /\ self.mu = a.mu[1]
                    /\ self.rho = a.rho[1]

C1_Witness ==
    /\ ret.op = "__init__"
    /\ ret.arg.mu # None
    /\ ret.arg.rho = None
    /\ self.mu # ret.arg.mu[1]
    /\ ret.arg.N > 0

\* components that agree with `obj` on mu and rho and differ in the
\* statistics or in the hyperparameters
SameParams(obj) ==
    { [obj EXCEPT !.N = n, !.sum_x = sx, !.sum_x_sq = F(sq)] :
        n \in 0..MaxN, sx \in Data, sq \in 0..MaxX }
    \cup
    { [obj EXCEPT !.m = h.m, !.r = h.r, !.s = h.s, !.nu = h.nu] :
        h \in { g \in Hypers : g.r > 0 /\ g.s > 0 /\ g.nu > 0 } }

\* C2: predictive_logp(x) depends on x, mu and rho only: components that
\* agree on mu and rho give the same result for every x, whatever their
\* statistics and hyperparameters are, and the call changes no field.
C2_PredictivePure ==
    ret.op = "predictive_logp" =>
        /\ self = pre
        /\ [kind |-> ret.kind, val |-> ret.val]
               \in Res(predictive_logp(pre, ret.arg))
        /\ \A alt \in SameParams(pre) :
               Res(predictive_logp(alt, ret.arg))
                   = Res(predictive_logp(pre, ret.arg))

C2_Witness ==
    /\ ret.op = "predictive_logp"
    /\ ret.kind = "ok"
    /\ self.N > 0
    /\ self.sum_x # self.mu
    /\ ret.arg # self.mu

\* C3: singleton_logp(x) equals predictive_logp(x) in every state and for
\* every x, also when N > 0.
C3_SingletonIsPredictive ==
    /\ \A x \in Data :
           Res(singleton_logp(self, x)) = Res(predictive_logp(self, x))
    /\ ret.op = "singleton_logp" =>
           [kind |-> ret.kind, val |-> ret.val]
               \in Res(predictive_logp(self, ret.arg))

C3_Witness ==
    /\ ret.op = "singleton_logp"
    /\ ret.kind = "ok"
    /\ self.N > 0
    /\ self.mu # self.m

\* C4: marginal_logp() is calc_log_likelihood(N, sum_x, sum_x_sq, rho, mu)
\* + calc_log_prior(mu, rho, m, r, s, nu) on the current fields, and
\* nothing else.
C4_MarginalDecomposition ==
    (ret.op = "marginal_logp" /\ ret.kind = "ok") =>
        LET ll == calc_log_likelihood(self.N, self.sum_x, self.sum_x_sq,
                                      self.rho, self.mu)
        IN  /\ ll.kind = "ok"
            /\ \E lp \in calc_log_prior(self.mu, self.rho, self.m,
                                        self.r, self.s, self.nu) :
                   /\ lp.kind = "ok"
                   /\ ret.val = ll.val + lp.val

C4_Witness ==
    /\ ret.op = "marginal_logp"
    /\ ret.kind = "ok"
    /\ self.N > 0
    /\ self.sum_x # 0
    /\ self.mu # self.rho
    /\ self.mu # 0

\* the posterior hyperparameters of `obj`, from the formulas
\* rn = r + N, nun = nu + N, mn = (r*m + sum_x)/rn,
\* sn = s + sum_x_sq + r*m*m - rn*mn*mn
Rn(obj) == obj.r + obj.N
Nun(obj) == obj.nu + obj.N
Mn(obj) == Rat(obj.r * obj.m + obj.sum_x, Rn(obj))
Sn(obj) ==
    RatSub(RatInt(obj.s + Val(obj.sum_x_sq) + obj.r * obj.m * obj.m),
           RatMul(RatInt(Rn(obj)), RatMul(Mn(obj), Mn(obj))))

PositiveHypers(obj) == obj.nu > 0 /\ obj.r > 0 /\ obj.s > 0 /\ obj.N >= 0

\* a transition ran as the last operation, on the component `pre`
Transitioned == ret.op = "transition_params"

RoundTrip == hist # <<>> /\ ret.op = "remove" /\ ret.arg = hist[1].x

\* the sum of squares incorporate(x) computed on the way, and whether the
\* addition was exact
Summed == FAdd(hist[1].before.sum_x_sq, Sq(hist[1].x))
Unrounded == Summed = ExactAdd(hist[1].before.sum_x_sq, Sq(hist[1].x))

LogpOps == {"predictive_logp", "singleton_logp", "marginal_logp"}

\* C7 as stated: a log-density evaluated at rho <= 0 fails with a
\* NumericError and leaves the component unchanged.
C7_Original ==
    (ret.op \in LogpOps /\ pre.rho <= 0) =>
        /\ ret.kind = "NumericError"
        /\ self = pre

\* C7 (amended): a log-density evaluated at rho <= 0 returns no
\* log-density and raises no NumericError: marginal_logp() fails with the
\* ValueError of log(rho); predictive_logp(x) and singleton_logp(x) fail
\* with the ZeroDivisionError of 1./rho**.5 when rho = 0 and, when
\* rho < 0, with the ValueError of the fractional power of a negative
\* number (Python 2) or with a complex scale (Python 3).  The component
\* is unchanged.
C7_NonPositivePrecision ==
    (ret.op \in LogpOps /\ pre.rho <= 0) =>
        /\ self = pre
        /\ ret.kind # "ok"
        /\ ret.kind # "NumericError"
        /\ ret.op = "marginal_logp" => ret.kind = "ValueError"
        /\ (ret.op # "marginal_logp" /\ pre.rho = 0) =>
               ret.kind = "ZeroDivisionError"
        /\ (ret.op # "marginal_logp" /\ pre.rho < 0) =>
               ret.kind \in {"ValueError", "ComplexScale"}

C7_Witness ==
    /\ ret.op = "marginal_logp"
    /\ pre.rho = 0
    /\ ret.kind = "ValueError"
    /\ pre.N > 0

NoData(obj) == obj.N = 0 /\ obj.sum_x = 0 /\ obj.sum_x_sq = F(0)

\* C8: for a component with no data (N = 0, sum_x = 0, sum_x_sq = 0) the
\* posterior hyperparameters of the transition are the prior ones,
\* (rn, nun, mn, sn) = (r, nu, m, s): it draws rho ~ Gamma(nu/2, s/2) and
\* mu ~ Normal(m, r * rho); with the defaults m=0, r=1, s=1, nu=1 they are
\* (1, 1, 0, 1).
C8_NoDataDrawsFromPrior ==
    /\ NoData(self) =>
           posterior_hypers(self.N, self.sum_x, self.sum_x_sq,
                            self.m, self.r, self.s, self.nu)
               = <<self.r, self.nu, RatInt(self.m), RatInt(self.s)>>
    /\ posterior_hypers(0, 0, F(0), 0, 1, 1, 1) = <<1, 1, RatInt(0), RatInt(1)>>
    /\ (Transitioned /\ ret.kind = "ok" /\ NoData(pre)) =>
           calls = << GammaCall(Rat(pre.nu, 2), Rat(pre.s, 2), self.rho),
                      NormalCall(RatInt(pre.m), pre.r * self.rho, self.mu) >>

C8_Witness ==
    /\ Transitioned
    /\ ret.kind = "ok"
    /\ NoData(pre)
    /\ HyperOf(pre) = <<0, 1, 1, 1>>
    /\ calls[1].a = Rat(1, 2)
    /\ calls[1].b = Rat(1, 2)
    /\ calls[2].a = RatInt(0)

\* C9: a transition computes (rn, nun, mn, sn) from the statistics and
\* hyperparameters it finds, then draws rho ~ Gamma(nun/2, rate sn/2), then
\* draws mu ~ Normal(mn, precision rn * rho) with the rho just drawn, and
\* stores that pair.
C9_TransitionOrder ==
    (Transitioned /\ ret.kind = "ok") =>
        /\ Len(calls) = 2
        /\ calls[1].fn = "sample_gamma"
        /\ calls[1].a = Rat(Nun(pre), 2)
        /\ calls[1].b = RatDiv(Sn(pre), RatInt(2))
        /\ calls[2].fn = "sample_normal"
        /\ calls[2].a = Mn(pre)
        /\ calls[2].b = Rn(pre) * calls[1].out
        /\ self.rho = calls[1].out
        /\ self.mu = calls[2].out

C9_Witness ==
    /\ Transitioned
    /\ ret.kind = "ok"
    /\ pre.rho > 0
    /\ self.rho # pre.rho
    /\ self.mu # pre.mu
    /\ pre.N > 0
    /\ calls[2].b # Rn(pre) * pre.rho

\* what a transition of `obj` can produce, apart from the fields it keeps
Draws(obj) ==
    { [kind |-> o.kind,
       mu |-> IF o.kind = "ok" THEN o.self.mu ELSE 0,
       rho |-> IF o.kind = "ok" THEN o.self.rho ELSE 0,
       calls |-> o.calls] : o \in transition_params(obj) }

OtherParams(obj) ==
    { [obj EXCEPT !.mu = a, !.rho = b] : a \in MuDraws, b \in (0 - 1)..MaxRho }

\* C10: a transition changes mu and rho only: N, sum_x, sum_x_sq, m, r, s
\* and nu keep their values, and the new (mu, rho) do not depend on the
\* previous ones.
C10_TransitionFrame ==
    /\ Transitioned =>
           /\ Stats(self) = Stats(pre)
           /\ HyperOf(self) = HyperOf(pre)
           /\ \A alt \in OtherParams(pre) : Draws(alt) = Draws(pre)
           /\ IF ret.kind = "ok"
              THEN [kind |-> "ok", mu |-> self.mu, rho |-> self.rho,
                    calls |-> calls] \in Draws(pre)
              ELSE self = pre

C10_Witness ==
    /\ Transitioned
    /\ ret.kind = "ok"
    /\ pre.N > 0
    /\ self.mu # pre.mu
    /\ self.rho # pre.rho
    /\ Val(pre.sum_x_sq) > 0

====
